---- MODULE Spec2Model ----
(***************************************************************************)
(* Model of the in-memory key-value provider                               *)
(*   crates/runtime/src/capability/provider/mem/keyvalue.rs                *)
(*                                                                         *)
(* KeyValue(RwLock<HashMap<String, RwLock<Bucket>>>) with its six          *)
(* operations (increment, compare_and_swap, get, set, delete, exists).     *)
(* Every operation is an async task; one action of the model is the code   *)
(* a task runs between two suspension points, except that the grant of a   *)
(* lock and the code run under it are two actions, so that a lock is       *)
(* observed held by the other tasks.                                       *)
(***************************************************************************)
EXTENDS Integers, Sequences, FiniteSets, TLC

\* ------------------------------------------------------------------ bounds

\* Number of concurrently running operations when the callers choose among all
\* the calls of Menu (task i is the i-th one invoked).
NumTasks == 2

\* Number of concurrently running operations when the callers contend for one
\* bucket (the calls of RaceMenu).
RaceTasks == 3

\* Width of the AtomicU64 in the model.  TLC's integers are 32 bits wide, so
\* the 64 bits of the code are scaled down; all counter arithmetic is done
\* modulo 2^U64Bits exactly as the code does it modulo 2^64.
U64Bits == 4

U64Mod == 2 ^ U64Bits

U64Max == U64Mod - 1

Tasks == 1..(IF NumTasks > RaceTasks THEN NumTasks ELSE RaceTasks)

Buckets == {"a", "b"}

Keys == {"ctr", "k"}

\* ------------------------------------------------------------- data model

\* enum Entry { Atomic(AtomicU64), Blob(Vec<u8>) }; Vacant is the absence of
\* the key from the bucket's HashMap.
Vacant == [kind |-> "Vacant", num |-> 0, bytes |-> <<>>]

Atomic(n) == [kind |-> "Atomic", num |-> n, bytes |-> <<>>]

Blob(s) == [kind |-> "Blob", num |-> 0, bytes |-> s]

\* type Bucket = HashMap<String, Entry>
EmptyBucket == [k \in Keys |-> Vacant]

\* A slot of the outer HashMap<String, RwLock<Bucket>>.
NoBucket == [present |-> FALSE, map |-> EmptyBucket]

SomeBucket(m) == [present |-> TRUE, map |-> m]

\* ---------------------------------------------------------- u64 arithmetic

\* (mutant) u64::saturating_add: the sum stops at the largest value.
saturating_add(a, b) == IF a + b > U64Max THEN U64Max ELSE a + b

\* u64::wrapping_add
wrapping_add(a, b) == (a + b) % U64Mod

\* AtomicU64::fetch_add stores the wrapped sum (and returns the old value).
fetch_add_store(cur, delta) == (cur + delta) % U64Mod

\* (mutant) the digits least significant first.
RECURSIVE to_string_reversed(_)
to_string_reversed(n) == IF n < 10 THEN <<48 + n>>
                         ELSE <<48 + (n % 10)>> \o to_string_reversed(n \div 10)

\* u64::to_string().into_bytes(): decimal ASCII, most significant digit first.
RECURSIVE to_string(_)
to_string(n) == IF n < 10 THEN <<48 + n>>
                ELSE to_string(n \div 10) \o <<48 + (n % 10)>>

\* ------------------------------------------------------------------ results

Pending == [status |-> "pending", num |-> 0, flag |-> FALSE, bytes |-> <<>>]

OkUnit == [status |-> "ok", num |-> 0, flag |-> FALSE, bytes |-> <<>>]

OkU64(n) == [status |-> "ok", num |-> n, flag |-> FALSE, bytes |-> <<>>]

OkBool(b) == [status |-> "ok", num |-> 0, flag |-> b, bytes |-> <<>>]

\* Ok((Box::new(Cursor::new(value)), size))
OkStream(s, size) == [status |-> "ok", num |-> size, flag |-> FALSE, bytes |-> s]

\* anyhow errors, named after the spec's taxonomy:
\*   "bucket not found" BucketNotFound, "key not found" KeyNotFound,
\*   "invalid entry type" TypeMismatch, "failed to read value" IOFailure.
Err(e) == [status |-> e, num |-> 0, flag |-> FALSE, bytes |-> <<>>]

\* --------------------------------------------------------------- operations

\* One call of the capability interface.  x, y are the u64 arguments (delta;
\* old, new); data is what the input stream of set yields and fails tells
\* whether read_to_end ends in an error.
Op(name, bucket, key, x, y, data, fails) ==
    [name |-> name, bucket |-> bucket, key |-> key, x |-> x, y |-> y,
     data |-> data, fails |-> fails]

NoOp == Op("none", "a", "ctr", 0, 0, <<>>, FALSE)

\* delta of increment: nothing, a step of one, and the largest u64 (with
\* which every sum but that with nothing wraps).
Deltas == {0, 1, U64Max}

\* (old, new) of compare_and_swap.
CasArgs == {<<1, 0>>, <<1, 1>>, <<0, 1>>}

\* What the input stream of set yields: "78" and the empty stream.
StreamData == {<<55, 56>>, <<>>}

IncrementOps == {Op("increment", b, k, d, 0, <<>>, FALSE) :
                    b \in Buckets, k \in Keys, d \in Deltas}

CasOps == {Op("compare_and_swap", b, k, a[1], a[2], <<>>, FALSE) :
                    b \in Buckets, k \in Keys, a \in CasArgs}

GetOps == {Op("get", b, k, 0, 0, <<>>, FALSE) : b \in Buckets, k \in Keys}

SetOps == {Op("set", b, k, 0, 0, s, FALSE) :
                    b \in Buckets, k \in Keys, s \in StreamData}
          \cup {Op("set", b, k, 0, 0, <<>>, TRUE) : b \in Buckets, k \in Keys}

DeleteOps == {Op("delete", b, k, 0, 0, <<>>, FALSE) : b \in Buckets, k \in Keys}

ExistsOps == {Op("exists", b, k, 0, 0, <<>>, FALSE) : b \in Buckets, k \in Keys}

Menu == IncrementOps \cup CasOps \cup GetOps \cup SetOps \cup DeleteOps
        \cup ExistsOps

\* The calls of callers that contend for the key "ctr" of bucket "a", with a
\* writer and a reader of the other bucket passing by.
RaceMenu == {Op("increment", "a", "ctr", 1, 0, <<>>, FALSE),
             Op("compare_and_swap", "a", "ctr", 1, 0, <<>>, FALSE),
             Op("get", "a", "ctr", 0, 0, <<>>, FALSE),
             Op("set", "a", "ctr", 0, 0, <<55, 56>>, FALSE),
             Op("delete", "a", "ctr", 0, 0, <<>>, FALSE),
             Op("exists", "a", "ctr", 0, 0, <<>>, FALSE),
             Op("set", "b", "k", 0, 0, <<>>, FALSE),
             Op("exists", "b", "k", 0, 0, <<>>, FALSE)}

\* ------------------------------------------------------------------- state

VARIABLES
    kv,           \* self.0: bucket name -> slot of the outer HashMap
    storeLock,    \* the outer RwLock: [readers, writer], sets of tasks
    storeQueue,   \* tasks suspended in self.0.read()/write(), first come first
    bucketLock,   \* bucket name -> the bucket's RwLock: [readers, writer]
    bucketQueue,  \* bucket name -> tasks suspended in bucket.read()/write()
    pc,           \* task -> where the task is in its operation
    op,           \* task -> the call it runs
    ret,          \* task -> what the call returned
    before,       \* task -> the tasks that had returned when it was invoked
    kv0           \* the store as constructed (never changes)

vars == <<kv, storeLock, storeQueue, bucketLock, bucketQueue, pc, op, ret,
          before, kv0>>

Unlocked == [readers |-> {}, writer |-> {}]

\* Buckets a store is constructed with (FromIterator / From<HashMap<..>>):
\* absent, empty, holding a counter and a blob, or holding two counters.
InitBuckets == {NoBucket, SomeBucket(EmptyBucket),
                SomeBucket([k \in Keys |->
                    IF k = "ctr" THEN Atomic(1) ELSE Blob(<<55>>)]),
                SomeBucket([k \in Keys |->
                    IF k = "ctr" THEN Atomic(0) ELSE Atomic(U64Max)])}

Init ==
    /\ kv \in [Buckets -> InitBuckets]
    /\ kv0 = kv
    /\ storeLock = Unlocked
    /\ storeQueue = <<>>
    /\ bucketLock = [b \in Buckets |-> Unlocked]
    /\ bucketQueue = [b \in Buckets |-> <<>>]
    /\ pc = [t \in Tasks |-> "idle"]
    /\ op = [t \in Tasks |-> NoOp]
    /\ ret = [t \in Tasks |-> Pending]
    /\ before = [t \in Tasks |-> {}]

\* ------------------------------------------------------- tokio::sync::RwLock

\* read() is granted when no writer holds the lock, write() when nobody does;
\* waiters are served first come first (a reader never overtakes a writer
\* that waits).
CanRead(l) == l.writer = {}

\* (mutant) a write lock granted while readers hold the lock.
CanWriteIgnoresReaders(l) == l.writer = {}

CanWrite(l) == l.writer = {} /\ l.readers = {}

AddReader(l, t) == [l EXCEPT !.readers = @ \cup {t}]

AddWriter(l, t) == [l EXCEPT !.writer = @ \cup {t}]

\* Dropping a guard.
Release(l, t) == [readers |-> l.readers \ {t}, writer |-> l.writer \ {t}]

IsHead(q, t) == q /= <<>> /\ Head(q) = t

\* ------------------------------------------- what each operation does to an entry

\* (mutant) an increment that takes a Blob for an absent key's place and
\* puts a fresh Counter there.
IncrementFastOverBlob(e, delta) ==
    IF e.kind = "Atomic"
    THEN [entry |-> Atomic((e.num + delta) % U64Mod),
          ret |-> OkU64((e.num + delta) % U64Mod), slow |-> FALSE]
    ELSE IF e.kind = "Blob"
    THEN [entry |-> Atomic(delta), ret |-> OkU64(delta), slow |-> FALSE]
    ELSE [entry |-> e, ret |-> Pending, slow |-> TRUE]

\* (mutant) a fast path that returns what fetch_add returns: the value
\* before the add.
IncrementFastReturnsOld(e, delta) ==
    IF e.kind = "Atomic"
    THEN [entry |-> Atomic(fetch_add_store(e.num, delta)),
          ret |-> OkU64(e.num), slow |-> FALSE]
    ELSE IF e.kind = "Blob"
    THEN [entry |-> e, ret |-> Err("TypeMismatch"), slow |-> FALSE]
    ELSE [entry |-> e, ret |-> Pending, slow |-> TRUE]

\* increment, lines 89-98: the entry found under the Bucket read lock.
\* slow tells that the key was absent and the call goes on to line 99.
IncrementFast(e, delta) ==
    IF e.kind = "Atomic"
    THEN [entry |-> Atomic(fetch_add_store(e.num, delta)),
          ret |-> OkU64(wrapping_add(e.num, delta)), slow |-> FALSE]
    ELSE IF e.kind = "Blob"
    THEN [entry |-> e, ret |-> Err("TypeMismatch"), slow |-> FALSE]
    ELSE [entry |-> e, ret |-> Pending, slow |-> TRUE]

\* (mutant) a slow path without the re-check: it inserts a fresh Counter
\* whatever another caller has inserted since the read lock was dropped.
IncrementSlowNoRecheck(e, delta) ==
    IF e.kind = "Blob"
    THEN [entry |-> e, ret |-> Err("TypeMismatch")]
    ELSE [entry |-> Atomic(delta), ret |-> OkU64(delta)]

\* (mutant) a slow path that, on a Counter another caller has inserted,
\* returns what fetch_add returns (the value before the add).
IncrementSlowReturnsOld(e, delta) ==
    IF e.kind = "Vacant"
    THEN [entry |-> Atomic(delta), ret |-> OkU64(delta)]
    ELSE IF e.kind = "Atomic"
    THEN [entry |-> Atomic((e.num + delta) % U64Mod), ret |-> OkU64(e.num)]
    ELSE [entry |-> e, ret |-> Err("TypeMismatch")]

\* increment, lines 100-111: bucket.entry(key) under the Bucket write lock.
IncrementSlow(e, delta) ==
    IF e.kind = "Vacant"
    THEN [entry |-> Atomic(delta), ret |-> OkU64(delta)]
    ELSE IF e.kind = "Atomic"
    THEN [entry |-> Atomic(fetch_add_store(e.num, delta)),
          ret |-> OkU64(wrapping_add(e.num, delta))]
    ELSE [entry |-> e, ret |-> Err("TypeMismatch")]

\* (mutant) a compare_and_swap that stores new although the value differs
\* from old.
CasStoresOnMismatch(e, old, new) ==
    IF e.kind = "Vacant"
    THEN [entry |-> e, ret |-> Err("KeyNotFound")]
    ELSE IF e.kind = "Blob"
    THEN [entry |-> e, ret |-> Err("TypeMismatch")]
    ELSE [entry |-> Atomic(new), ret |-> OkBool(e.num = old)]

\* (mutant) a compare_and_swap that compares and reports but does not store.
CasDoesNotStore(e, old, new) ==
    IF e.kind = "Vacant"
    THEN [entry |-> e, ret |-> Err("KeyNotFound")]
    ELSE IF e.kind = "Blob"
    THEN [entry |-> e, ret |-> Err("TypeMismatch")]
    ELSE [entry |-> e, ret |-> OkBool(e.num = old)]

\* (mutant) a compare_and_swap that stores new over any Counter and reports
\* success.
CasUnconditionalStore(e, old, new) ==
    IF e.kind = "Vacant"
    THEN [entry |-> e, ret |-> Err("KeyNotFound")]
    ELSE IF e.kind = "Blob"
    THEN [entry |-> e, ret |-> Err("TypeMismatch")]
    ELSE [entry |-> Atomic(new), ret |-> OkBool(TRUE)]

\* compare_and_swap, lines 123-129.
CompareAndSwapEntry(e, old, new) ==
    IF e.kind = "Vacant"
    THEN [entry |-> e, ret |-> Err("KeyNotFound")]
    ELSE IF e.kind = "Blob"
    THEN [entry |-> e, ret |-> Err("TypeMismatch")]
    ELSE IF e.num = old
    THEN [entry |-> Atomic(new), ret |-> OkBool(TRUE)]
    ELSE [entry |-> e, ret |-> OkBool(FALSE)]

\* get, lines 143-151.
GetEntry(e) ==
    IF e.kind = "Vacant" THEN Err("KeyNotFound")
    ELSE LET value == IF e.kind = "Atomic" THEN to_string(e.num) ELSE e.bytes
         IN  OkStream(value, Len(value))

\* (mutant) a set that leaves a Counter in place.
SetEntryKeepsCounter(e, buf) == IF e.kind = "Atomic" THEN e ELSE Blob(buf)

\* set, line 168: bucket.insert(key, Entry::Blob(buf)).
SetEntry(e, buf) == Blob(buf)

\* (mutant) a delete that succeeds whether the key is present or not.
DeleteEntryIgnoresAbsent(e) == [entry |-> Vacant, ret |-> OkUnit]

\* delete, line 176: bucket.remove(&key).context("key not found").
DeleteEntry(e) ==
    IF e.kind = "Vacant"
    THEN [entry |-> e, ret |-> Err("KeyNotFound")]
    ELSE [entry |-> Vacant, ret |-> OkUnit]

\* exists, line 184: bucket.contains_key(&key).
ExistsEntry(e) == OkBool(e.kind /= "Vacant")

\* (mutant) a lookup of the slot that inserts nothing when the bucket is absent.
OrDefaultInsertsNothing(slot) == slot

\* kv.entry(bucket.into()).or_default(), line 167.
OrDefault(slot) == IF slot.present THEN slot ELSE SomeBucket(EmptyBucket)

\* The store with the entry of (b, k) replaced.
WithEntry(m, b, k, e) == [m EXCEPT ![b].map[k] = e]

\* ------------------------------------------------------------------ actions

\* A caller starts operation o as task t.  set first drains its stream
\* (line 162); every other operation starts by awaiting self.0.read().
Invoke(t, menu) ==
    /\ pc[t] = "idle"
    /\ \A u \in Tasks : u < t => pc[u] /= "idle"
    /\ \E o \in menu :
        /\ op' = [op EXCEPT ![t] = o]
        /\ pc' = [pc EXCEPT ![t] = IF o.name = "set" THEN "set_read"
                                   ELSE "store_wait"]
        /\ storeQueue' = IF o.name = "set" THEN storeQueue
                         ELSE Append(storeQueue, t)
    /\ before' = [before EXCEPT ![t] = {u \in Tasks : pc[u] = "done"}]
    /\ UNCHANGED <<kv, storeLock, bucketLock, bucketQueue, ret, kv0>>

\* (mutant) a lookup that creates the bucket it does not find (or_default in
\* the place of get).
StoreReadCreates(t, name) ==
    /\ pc[t] = "store_wait"
    /\ op[t].name = name
    /\ IsHead(storeQueue, t)
    /\ CanRead(storeLock)
    /\ storeQueue' = Tail(storeQueue)
    /\ storeLock' = AddReader(storeLock, t)
    /\ kv' = [kv EXCEPT ![op[t].bucket] =
                IF @.present THEN @ ELSE SomeBucket(EmptyBucket)]
    /\ bucketQueue' = [bucketQueue EXCEPT ![op[t].bucket] = Append(@, t)]
    /\ pc' = [pc EXCEPT ![t] = "bucket_wait"]
    /\ UNCHANGED <<bucketLock, op, ret, before, kv0>>

\* self.0.read().await is granted, then kv.get(bucket).context("bucket not
\* found")?: with the bucket absent the call returns (the guard is dropped),
\* otherwise it awaits the bucket's lock.
StoreRead(t, name) ==
    /\ pc[t] = "store_wait"
    /\ op[t].name = name
    /\ IsHead(storeQueue, t)
    /\ CanRead(storeLock)
    /\ storeQueue' = Tail(storeQueue)
    /\ IF kv[op[t].bucket].present
       THEN /\ storeLock' = AddReader(storeLock, t)
            /\ bucketQueue' = [bucketQueue EXCEPT
                                 ![op[t].bucket] = Append(@, t)]
            /\ pc' = [pc EXCEPT ![t] = "bucket_wait"]
            /\ ret' = ret
       ELSE /\ storeLock' = storeLock
            /\ bucketQueue' = bucketQueue
            /\ pc' = [pc EXCEPT ![t] = "done"]
            /\ ret' = [ret EXCEPT ![t] = Err("BucketNotFound")]
    /\ UNCHANGED <<kv, bucketLock, op, before, kv0>>

\* bucket.read().await is granted.
BucketRead(t, name) ==
    /\ pc[t] = "bucket_wait"
    /\ op[t].name = name
    /\ IsHead(bucketQueue[op[t].bucket], t)
    /\ CanRead(bucketLock[op[t].bucket])
    /\ bucketQueue' = [bucketQueue EXCEPT ![op[t].bucket] = Tail(@)]
    /\ bucketLock' = [bucketLock EXCEPT ![op[t].bucket] = AddReader(@, t)]
    /\ pc' = [pc EXCEPT ![t] = "bucket_held"]
    /\ UNCHANGED <<kv, storeLock, storeQueue, op, ret, before, kv0>>

\* bucket.write().await is granted.
BucketWrite(t, name, from, to) ==
    /\ pc[t] = from
    /\ op[t].name = name
    /\ IsHead(bucketQueue[op[t].bucket], t)
    /\ CanWrite(bucketLock[op[t].bucket])
    /\ bucketQueue' = [bucketQueue EXCEPT ![op[t].bucket] = Tail(@)]
    /\ bucketLock' = [bucketLock EXCEPT ![op[t].bucket] = AddWriter(@, t)]
    /\ pc' = [pc EXCEPT ![t] = to]
    /\ UNCHANGED <<kv, storeLock, storeQueue, op, ret, before, kv0>>

\* The call returns r with the store left as m: the Bucket guard and then the
\* Store guard are dropped.
Return(t, m, r) ==
    /\ kv' = m
    /\ ret' = [ret EXCEPT ![t] = r]
    /\ pc' = [pc EXCEPT ![t] = "done"]
    /\ bucketLock' = [bucketLock EXCEPT ![op[t].bucket] = Release(@, t)]
    /\ storeLock' = Release(storeLock, t)
    /\ UNCHANGED <<storeQueue, bucketQueue, op, before, kv0>>

\* ---- increment, lines 86-112

IncStoreRead(t) == StoreRead(t, "increment")

IncBucketRead(t) == BucketRead(t, "increment")

\* (mutant) an increment whose read guard lives on while it awaits
\* bucket.write().
IncFastPathKeepsGuard(t) ==
    /\ pc[t] = "bucket_held"
    /\ op[t].name = "increment"
    /\ LET b == op[t].bucket
           k == op[t].key
           r == IncrementFast(kv[b].map[k], op[t].x)
       IN  IF r.slow
           THEN /\ bucketQueue' = [bucketQueue EXCEPT ![b] = Append(@, t)]
                /\ pc' = [pc EXCEPT ![t] = "bwrite_wait"]
                /\ UNCHANGED <<kv, storeLock, storeQueue, bucketLock, op, ret,
                               before, kv0>>
           ELSE Return(t, WithEntry(kv, b, k, r.entry), r.ret)

\* (mutant) an increment that drops the Store guard with the Bucket read
\* guard before it awaits the Bucket write lock.
IncFastPathDropsStore(t) ==
    /\ pc[t] = "bucket_held"
    /\ op[t].name = "increment"
    /\ LET b == op[t].bucket
           k == op[t].key
           r == IncrementFast(kv[b].map[k], op[t].x)
       IN  IF r.slow
           THEN /\ bucketLock' = [bucketLock EXCEPT ![b] = Release(@, t)]
                /\ storeLock' = Release(storeLock, t)
                /\ bucketQueue' = [bucketQueue EXCEPT ![b] = Append(@, t)]
                /\ pc' = [pc EXCEPT ![t] = "bwrite_wait"]
                /\ UNCHANGED <<kv, storeQueue, op, ret, before, kv0>>
           ELSE Return(t, WithEntry(kv, b, k, r.entry), r.ret)

\* Lines 89-98 under the Bucket read lock.  With the key absent the read
\* guard (a temporary of the if let) is dropped at the end of the statement
\* and the call awaits bucket.write() (line 99), still holding the Store
\* read lock.
IncFastPath(t) ==
    /\ pc[t] = "bucket_held"
    /\ op[t].name = "increment"
    /\ LET b == op[t].bucket
           k == op[t].key
           r == IncrementFast(kv[b].map[k], op[t].x)
       IN  IF r.slow
           THEN /\ bucketLock' = [bucketLock EXCEPT ![b] = Release(@, t)]
                /\ bucketQueue' = [bucketQueue EXCEPT ![b] = Append(@, t)]
                /\ pc' = [pc EXCEPT ![t] = "bwrite_wait"]
                /\ UNCHANGED <<kv, storeLock, storeQueue, op, ret, before, kv0>>
           ELSE Return(t, WithEntry(kv, b, k, r.entry), r.ret)

IncBucketWrite(t) == BucketWrite(t, "increment", "bwrite_wait", "bwrite_held")

\* Lines 100-111 under the Bucket write lock.
IncSlowPath(t) ==
    /\ pc[t] = "bwrite_held"
    /\ op[t].name = "increment"
    /\ LET b == op[t].bucket
           k == op[t].key
           r == IncrementSlow(kv[b].map[k], op[t].x)
       IN  Return(t, WithEntry(kv, b, k, r.entry), r.ret)

\* ---- compare_and_swap, lines 114-130

CasStoreRead(t) == StoreRead(t, "compare_and_swap")

CasBucketRead(t) == BucketRead(t, "compare_and_swap")

CasBody(t) ==
    /\ pc[t] = "bucket_held"
    /\ op[t].name = "compare_and_swap"
    /\ LET b == op[t].bucket
           k == op[t].key
           r == CompareAndSwapEntry(kv[b].map[k], op[t].x, op[t].y)
       IN  Return(t, WithEntry(kv, b, k, r.entry), r.ret)

\* ---- get, lines 136-152

GetStoreRead(t) == StoreRead(t, "get")

GetBucketRead(t) == BucketRead(t, "get")

GetBody(t) ==
    /\ pc[t] = "bucket_held"
    /\ op[t].name = "get"
    /\ Return(t, kv, GetEntry(kv[op[t].bucket].map[op[t].key]))

\* ---- set, lines 155-170

\* (mutant) a set that creates the bucket before it reads its stream.
SetReadStreamCreatesBucket(t) ==
    /\ pc[t] = "set_read"
    /\ op[t].name = "set"
    /\ kv' = [kv EXCEPT ![op[t].bucket] = OrDefault(@)]
    /\ IF op[t].fails
       THEN /\ ret' = [ret EXCEPT ![t] = Err("IOFailure")]
            /\ pc' = [pc EXCEPT ![t] = "done"]
            /\ storeQueue' = storeQueue
       ELSE /\ ret' = ret
            /\ pc' = [pc EXCEPT ![t] = "store_wait"]
            /\ storeQueue' = Append(storeQueue, t)
    /\ UNCHANGED <<storeLock, bucketLock, bucketQueue, op, before, kv0>>

\* value.read_to_end(&mut buf).await.context("failed to read value")?
SetReadStream(t) ==
    /\ pc[t] = "set_read"
    /\ op[t].name = "set"
    /\ IF op[t].fails
       THEN /\ ret' = [ret EXCEPT ![t] = Err("IOFailure")]
            /\ pc' = [pc EXCEPT ![t] = "done"]
            /\ storeQueue' = storeQueue
       ELSE /\ ret' = ret
            /\ pc' = [pc EXCEPT ![t] = "store_wait"]
            /\ storeQueue' = Append(storeQueue, t)
    /\ UNCHANGED <<kv, storeLock, bucketLock, bucketQueue, op, before, kv0>>

\* (mutant) a set that takes the Store lock for reading.
SetStoreWriteShared(t) ==
    /\ pc[t] = "store_wait"
    /\ op[t].name = "set"
    /\ IsHead(storeQueue, t)
    /\ CanRead(storeLock)
    /\ storeQueue' = Tail(storeQueue)
    /\ storeLock' = AddReader(storeLock, t)
    /\ kv' = [kv EXCEPT ![op[t].bucket] = OrDefault(@)]
    /\ bucketQueue' = [bucketQueue EXCEPT ![op[t].bucket] = Append(@, t)]
    /\ pc' = [pc EXCEPT ![t] = "bucket_wait"]
    /\ UNCHANGED <<bucketLock, op, ret, before, kv0>>

\* self.0.write().await is granted; kv.entry(bucket.into()).or_default()
\* creates the bucket if it is absent, and the call awaits its write lock.
SetStoreWrite(t) ==
    /\ pc[t] = "store_wait"
    /\ op[t].name = "set"
    /\ IsHead(storeQueue, t)
    /\ CanWrite(storeLock)
    /\ storeQueue' = Tail(storeQueue)
    /\ storeLock' = AddWriter(storeLock, t)
    /\ kv' = [kv EXCEPT ![op[t].bucket] = OrDefault(@)]
    /\ bucketQueue' = [bucketQueue EXCEPT ![op[t].bucket] = Append(@, t)]
    /\ pc' = [pc EXCEPT ![t] = "bucket_wait"]
    /\ UNCHANGED <<bucketLock, op, ret, before, kv0>>

SetBucketWrite(t) == BucketWrite(t, "set", "bucket_wait", "bucket_held")

SetInsert(t) ==
    /\ pc[t] = "bucket_held"
    /\ op[t].name = "set"
    /\ LET b == op[t].bucket
           k == op[t].key
       IN  Return(t, WithEntry(kv, b, k, SetEntry(kv[b].map[k], op[t].data)),
                  OkUnit)

\* ---- delete, lines 173-178

DeleteStoreRead(t) == StoreRead(t, "delete")

DeleteBucketWrite(t) == BucketWrite(t, "delete", "bucket_wait", "bucket_held")

\* (mutant) a delete that removes the bucket with its last key.
DeleteRemoveDropsEmptyBucket(t) ==
    /\ pc[t] = "bucket_held"
    /\ op[t].name = "delete"
    /\ LET b == op[t].bucket
           k == op[t].key
           r == DeleteEntry(kv[b].map[k])
           m == WithEntry(kv, b, k, r.entry)
       IN  Return(t, IF m[b].map = EmptyBucket
                     THEN [m EXCEPT ![b] = NoBucket] ELSE m, r.ret)

DeleteRemove(t) ==
    /\ pc[t] = "bucket_held"
    /\ op[t].name = "delete"
    /\ LET b == op[t].bucket
           k == op[t].key
           r == DeleteEntry(kv[b].map[k])
       IN  Return(t, WithEntry(kv, b, k, r.entry), r.ret)

\* ---- exists, lines 181-185

ExistsStoreRead(t) == StoreRead(t, "exists")

ExistsBucketRead(t) == BucketRead(t, "exists")

ExistsBody(t) ==
    /\ pc[t] = "bucket_held"
    /\ op[t].name = "exists"
    /\ Return(t, kv, ExistsEntry(kv[op[t].bucket].map[op[t].key]))

\* ----------------------------------------------------------- specification

\* A step of task t inside its operation.
Step(t) ==
    \/ IncStoreRead(t) \/ IncBucketRead(t) \/ IncFastPath(t)
    \/ IncBucketWrite(t) \/ IncSlowPath(t)
    \/ CasStoreRead(t) \/ CasBucketRead(t) \/ CasBody(t)
    \/ GetStoreRead(t) \/ GetBucketRead(t) \/ GetBody(t)
    \/ SetReadStream(t) \/ SetStoreWrite(t) \/ SetBucketWrite(t)
    \/ SetInsert(t)
    \/ DeleteStoreRead(t) \/ DeleteBucketWrite(t) \/ DeleteRemove(t)
    \/ ExistsStoreRead(t) \/ ExistsBucketRead(t) \/ ExistsBody(t)

\* Up to NumTasks callers, each with any call of Menu.
Next == \E t \in 1..NumTasks : Invoke(t, Menu) \/ Step(t)

Spec == Init /\ [][Next]_vars

\* Up to RaceTasks callers contending for one bucket.
NextRace == \E t \in 1..RaceTasks : Invoke(t, RaceMenu) \/ Step(t)

SpecRace == Init /\ [][NextRace]_vars

\* ---- cancellation

\* The queue q without task t.
Without(q, t) == SelectSeq(q, LAMBDA u : u /= t)

\* The caller drops the future of task t while it is suspended in
\* self.0.read() / write() (lines 87, 121, 141, 166, 174, 182) or in
\* bucket.read() / write() (lines 89, 99, 122, 142, 167, 176, 183): the
\* pending acquire leaves the lock's wait queue and the guards the task
\* holds are dropped.  No other code of the operation runs.
Cancel(t) ==
    /\ pc[t] \in {"store_wait", "bucket_wait", "bwrite_wait"}
    /\ pc' = [pc EXCEPT ![t] = "cancelled"]
    /\ storeQueue' = Without(storeQueue, t)
    /\ bucketQueue' = [b \in Buckets |-> Without(bucketQueue[b], t)]
    /\ storeLock' = Release(storeLock, t)
    /\ bucketLock' = [b \in Buckets |-> Release(bucketLock[b], t)]
    /\ UNCHANGED <<kv, op, ret, before, kv0>>

\* Up to RaceTasks callers contending for one bucket, each of which may
\* abandon its call while it awaits a lock.
NextCancel ==
    \E t \in 1..RaceTasks : Invoke(t, RaceMenu) \/ Step(t) \/ Cancel(t)

SpecCancel == Init /\ [][NextCancel]_vars

\* Every task that is scheduled takes its next step (the runtime polls every
\* task that is woken, and a lock wakes its waiters first come first).
FairSpec == Spec /\ \A t \in 1..NumTasks : WF_vars(Step(t))

FairSpecRace == SpecRace /\ \A t \in 1..RaceTasks : WF_vars(Step(t))

\* --------------------------------------------------- sequential executions

\* Operation o run from store m with no other task running (each function of
\* the two impl blocks, lines 84-186, from its first line to its return).
SeqApply(m, o) ==
    LET slot == m[o.bucket]
        e == slot.map[o.key]
        put(x) == [m EXCEPT ![o.bucket].map[o.key] = x]
    IN
    IF o.name = "set"
    THEN IF o.fails THEN [kv |-> m, ret |-> Err("IOFailure")]
         ELSE [kv |-> [m EXCEPT ![o.bucket] =
                          [present |-> TRUE,
                           map |-> [slot.map EXCEPT ![o.key] = Blob(o.data)]]],
               ret |-> OkUnit]
    ELSE IF ~slot.present THEN [kv |-> m, ret |-> Err("BucketNotFound")]
    ELSE IF o.name = "exists"
    THEN [kv |-> m, ret |-> OkBool(e.kind \in {"Atomic", "Blob"})]
    ELSE IF o.name = "increment"
    THEN CASE e.kind = "Vacant" ->
                [kv |-> put(Atomic(o.x)), ret |-> OkU64(o.x)]
           [] e.kind = "Atomic" ->
                [kv |-> put(Atomic((e.num + o.x) % U64Mod)),
                 ret |-> OkU64((e.num + o.x) % U64Mod)]
           [] e.kind = "Blob" -> [kv |-> m, ret |-> Err("TypeMismatch")]
    ELSE IF e.kind = "Vacant" THEN [kv |-> m, ret |-> Err("KeyNotFound")]
    ELSE IF o.name = "delete" THEN [kv |-> put(Vacant), ret |-> OkUnit]
    ELSE IF o.name = "get"
    THEN [kv |-> m,
          ret |-> IF e.kind = "Blob" THEN OkStream(e.bytes, Len(e.bytes))
                  ELSE OkStream(to_string(e.num), Len(to_string(e.num)))]
    ELSE \* compare_and_swap
         IF e.kind = "Blob" THEN [kv |-> m, ret |-> Err("TypeMismatch")]
         ELSE IF e.num = o.x
         THEN [kv |-> put(Atomic(o.y)), ret |-> OkBool(TRUE)]
         ELSE [kv |-> m, ret |-> OkBool(FALSE)]

\* ------------------------------------------------------------ vocabulary

Invoked == {t \in Tasks : pc[t] /= "idle"}

Returned == {t \in Tasks : pc[t] = "done"}

\* No operation is running.
Quiescent == Invoked = Returned

EntryOf(m, o) == m[o.bucket].map[o.key]

\* The orders in which the tasks of S can be placed one after the other.
Orders(S) == {f \in [1..Cardinality(S) -> S] :
                \A i, j \in 1..Cardinality(S) : i /= j => f[i] /= f[j]}

\* An operation that had returned before another was invoked comes first.
RespectsRealTime(order) ==
    \A i, j \in 1..Len(order) : i < j => order[j] \notin before[order[i]]

\* Running the operations from the i-th of order on, one after the other
\* from store m, returns what the tasks returned and ends in the store kv.
RECURSIVE Replays(_, _, _)
Replays(m, order, i) ==
    IF i > Len(order) THEN m = kv
    ELSE LET r == SeqApply(m, op[order[i]])
         IN  r.ret = ret[order[i]] /\ Replays(r.kv, order, i + 1)

\* ------------------------------------------------------------------ claims

\* The call of C1: increment(bucket, "ctr", 1).
CtrOp == Op("increment", "a", "ctr", 1, 0, <<>>, FALSE)

CtrCallers == {t \in Invoked : op[t] = CtrOp}

\* The key "ctr" of bucket "a" is absent from the store as constructed, its
\* bucket exists, and increment(a, "ctr", 1) is the only call on that key.
OnlyCtrCalls ==
    /\ kv0["a"].present
    /\ kv0["a"].map["ctr"].kind = "Vacant"
    /\ CtrCallers /= {}
    /\ \A t \in Invoked :
         (op[t].bucket = "a" /\ op[t].key = "ctr") => op[t] = CtrOp

\* C1: N tasks concurrently call increment(bucket, "ctr", 1) on a key that is
\* absent at first, no other call touching the key: once all have returned,
\* every call has succeeded and the key holds a Counter of exactly N,
\* whatever the interleaving.
C1_NoLostUpdate ==
    (Quiescent /\ OnlyCtrCalls) =>
        /\ kv["a"].map["ctr"] = Atomic(Cardinality(CtrCallers))
        /\ \A t \in CtrCallers : ret[t].status = "ok"

\* RaceTasks increments, all invoked before any of them returned, have all
\* returned.
C1_Witness ==
    /\ Quiescent
    /\ OnlyCtrCalls
    /\ CtrCallers = 1..RaceTasks
    /\ \A t \in CtrCallers : before[t] = {}
    /\ kv["a"].map["ctr"] = Atomic(RaceTasks)

\* C2: every operation takes effect atomically between its invocation and
\* its return: whenever no operation is running, what the operations
\* returned and the store they left are those of running them one after the
\* other, in an order that keeps every operation that had returned before
\* another was invoked ahead of it.
C2_Linearizable ==
    Quiescent =>
        \E order \in Orders(Returned) :
            RespectsRealTime(order) /\ Replays(kv0, order, 1)

\* Three overlapping operations have returned, and the order in which they
\* took effect is not the order in which they were invoked.
C2_Witness ==
    /\ Returned = 1..RaceTasks
    /\ \A t \in Returned : before[t] = {}
    /\ \E t \in Returned : op[t].name = "increment"
    /\ ~Replays(kv0, [i \in 1..RaceTasks |-> i], 1)

\* An increment that waits for the Bucket write lock (line 99) has dropped
\* the read guard of line 89.
SlowPathWaitsUnlocked ==
    \A t \in Tasks :
        pc[t] = "bwrite_wait" => t \notin bucketLock[op[t].bucket].readers

\* A set that waits for the Bucket write lock (line 167) holds the Store
\* write lock, and nobody holds or waits for the bucket's lock before it.
SetNeverBlocked ==
    \A t \in Tasks :
        (op[t].name = "set" /\ pc[t] = "bucket_wait") =>
            /\ storeLock.writer = {t}
            /\ bucketLock[op[t].bucket] = Unlocked
            /\ IsHead(bucketQueue[op[t].bucket], t)

\* C3: the store is deadlock-free: with every task taking its steps and the
\* locks handed off first come first, every operation that is invoked
\* returns (a task never leaves "done" and is invoked once, so this is: from
\* some point on no operation is running); an increment on its slow path does
\* not hold the Bucket read lock while it waits for the write lock, and a set
\* that waits for a Bucket write lock is blocked by nobody.
C3_DeadlockFree ==
    /\ []SlowPathWaitsUnlocked
    /\ []SetNeverBlocked
    /\ <>[]Quiescent

\* A reader holds a bucket's lock, a writer waits for it, and an increment
\* that found its key absent waits behind the writer for the write lock.
C3_Witness ==
    \E r, w, i \in Tasks :
        /\ pc[r] = "bucket_held" /\ r \in bucketLock["a"].readers
        /\ op[w].name = "delete" /\ pc[w] = "bucket_wait"
        /\ op[i].name = "increment" /\ pc[i] = "bwrite_wait"
        /\ bucketQueue["a"] = <<w, i>>

\* Task t returns in this step.
Returns(t) == pc[t] /= "done" /\ pc'[t] = "done"

\* This step leaves every bucket in place and every entry but that of (b, k)
\* as it was.
OthersUnchanged(b, k) ==
    \A b2 \in Buckets :
        /\ kv'[b2].present = kv[b2].present
        /\ \A k2 \in Keys :
             <<b2, k2>> /= <<b, k>> => kv'[b2].map[k2] = kv[b2].map[k2]

\* The store m with the entry of o's key replaced by e, nothing else changed.
Only(m, o, e) == [m EXCEPT ![o.bucket].map[o.key] = e]

\* Task 1 ran alone and has returned.
Alone == Invoked = {1} /\ Returned = {1}

\* Task 1 returned before task 2 was invoked, both have returned and no
\* other operation ran.
OneThenTwo == Invoked = {1, 2} /\ Returned = {1, 2} /\ 1 \in before[2]

SameKey(o1, o2) == o1.bucket = o2.bucket /\ o1.key = o2.key

\* The step in which a compare_and_swap meets a Counter.
CasOnCounter(t) ==
    /\ op[t].name = "compare_and_swap"
    /\ pc[t] = "bucket_held"
    /\ Returns(t)
    /\ EntryOf(kv, op[t]).kind = "Atomic"

\* C4: compare_and_swap on a Counter makes one compare-exchange: with the
\* current value equal to old the value becomes new and the call returns
\* true, otherwise the call returns false (no error) and the value stays; no
\* other key or bucket changes, in the step and in a call that runs alone.
C4_CompareAndSwap ==
    /\ [][\A t \in Tasks : CasOnCounter(t) =>
            /\ IF EntryOf(kv, op[t]).num = op[t].x
               THEN /\ ret'[t] = OkBool(TRUE)
                    /\ EntryOf(kv', op[t]) = Atomic(op[t].y)
               ELSE /\ ret'[t] = OkBool(FALSE)
                    /\ EntryOf(kv', op[t]) = EntryOf(kv, op[t])
            /\ OthersUnchanged(op[t].bucket, op[t].key)]_vars
    /\ []((Alone /\ op[1].name = "compare_and_swap"
                 /\ EntryOf(kv0, op[1]).kind = "Atomic") =>
            IF EntryOf(kv0, op[1]).num = op[1].x
            THEN ret[1] = OkBool(TRUE) /\ kv = Only(kv0, op[1], Atomic(op[1].y))
            ELSE ret[1] = OkBool(FALSE) /\ kv = kv0)

\* One compare_and_swap has swapped a Counter and another has found a
\* Counter that differs from its old.
C4_Witness ==
    /\ OneThenTwo
    /\ op[1].name = "compare_and_swap" /\ ret[1] = OkBool(TRUE)
    /\ op[2].name = "compare_and_swap" /\ ret[2] = OkBool(FALSE)
    /\ EntryOf(kv, op[2]).kind = "Atomic"
    /\ EntryOf(kv, op[2]).num /= op[2].x

\* compare_and_swap(old = c, new = X) on a Counter of value c, and the same
\* call again, nothing in between.
CasTwice ==
    /\ OneThenTwo
    /\ op[1].name = "compare_and_swap"
    /\ op[2] = op[1]
    /\ EntryOf(kv0, op[1]) = Atomic(op[1].x)

\* C5 as stated: for every c and X the first call returns true and sets the
\* value to X, and the same call repeated returns false.
C5_AsStated ==
    CasTwice => /\ ret[1] = OkBool(TRUE)
                /\ ret[2] = OkBool(FALSE)
                /\ EntryOf(kv, op[1]) = Atomic(op[1].y)

\* C5 (amended): for every Counter value c and every new value X other than
\* c, compare_and_swap(old = c, new = X) returns true and sets the value to X
\* and the same call repeated at once returns false, the value staying X.
C5_CasTwice ==
    (CasTwice /\ op[1].y /= op[1].x) =>
        /\ ret[1] = OkBool(TRUE)
        /\ ret[2] = OkBool(FALSE)
        /\ EntryOf(kv, op[1]) = Atomic(op[1].y)

C5_Witness ==
    /\ CasTwice
    /\ op[1].y /= op[1].x
    /\ ret[2] = OkBool(FALSE)

\* increment(b, k, delta1) on a key absent from an existing bucket, then
\* increment(b, k, delta2), nothing in between.
IncTwice ==
    /\ OneThenTwo
    /\ op[1].name = "increment"
    /\ op[2].name = "increment"
    /\ SameKey(op[1], op[2])
    /\ kv0[op[1].bucket].present
    /\ EntryOf(kv0, op[1]).kind = "Vacant"

\* C6: incrementing a fresh key of an existing bucket by delta1 and then by
\* delta2 returns delta1 and then (delta1 + delta2) mod 2^64, and leaves the
\* Counter at that sum; a sum that crosses 2^64 wraps and is no error.
C6_IncrementWraps ==
    IncTwice =>
        /\ ret[1] = OkU64(op[1].x)
        /\ ret[2] = OkU64((op[1].x + op[2].x) % U64Mod)
        /\ EntryOf(kv, op[1]) = Atomic((op[1].x + op[2].x) % U64Mod)

\* The sum of the two deltas crosses the width of the counter.
C6_Witness ==
    /\ IncTwice
    /\ op[1].x + op[2].x >= U64Mod
    /\ ret[2].status = "ok"

AtomicCalls == {"increment", "compare_and_swap"}

\* C7: increment and compare_and_swap on a key that holds a Blob fail with
\* TypeMismatch and leave the Blob and the rest of the store as they were:
\* in the step in which the call meets the Blob, and in a call that runs
\* alone.
C7_TypeMismatch ==
    /\ [][\A t \in Tasks :
            (/\ op[t].name \in AtomicCalls
             /\ Returns(t)
             /\ EntryOf(kv, op[t]).kind = "Blob") =>
                ret'[t] = Err("TypeMismatch") /\ kv' = kv]_vars
    /\ []((Alone /\ op[1].name \in AtomicCalls
                 /\ EntryOf(kv0, op[1]).kind = "Blob") =>
            ret[1] = Err("TypeMismatch") /\ kv = kv0)

\* An increment and a compare_and_swap have both failed on a Blob that is
\* still there.
C7_Witness ==
    /\ Returned = {1, 2}
    /\ op[1].name = "increment" /\ op[2].name = "compare_and_swap"
    /\ \A t \in {1, 2} :
         ret[t] = Err("TypeMismatch") /\ EntryOf(kv, op[t]).kind = "Blob"

\* set(b, k, bytes) of task 1, whose stream is read without error.
SetOk(o) == o.name = "set" /\ ~o.fails

\* The store m after set o: the bucket exists and the key holds Blob(bytes).
AfterSet(m, o) ==
    [m EXCEPT ![o.bucket] =
        [present |-> TRUE, map |-> [m[o.bucket].map EXCEPT ![o.key] = Blob(o.data)]]]

\* C8: a set whose stream is read without error succeeds whatever the prior
\* state: it creates the bucket if absent and leaves Blob(bytes) at the key,
\* whether the key was absent, a Blob or a Counter; no other key or bucket
\* changes; an increment or compare_and_swap that follows on a key that held
\* a Counter fails TypeMismatch.
C8_SetOverwrites ==
    /\ [][\A t \in Tasks :
            (SetOk(op[t]) /\ Returns(t)) =>
                /\ ret'[t] = OkUnit
                /\ kv'[op[t].bucket].present
                /\ EntryOf(kv', op[t]) = Blob(op[t].data)
                /\ OthersUnchanged(op[t].bucket, op[t].key)]_vars
    /\ []((Alone /\ SetOk(op[1])) =>
            ret[1] = OkUnit /\ kv = AfterSet(kv0, op[1]))
    /\ []((/\ OneThenTwo
           /\ SetOk(op[1])
           /\ op[2].name \in AtomicCalls
           /\ SameKey(op[1], op[2])) =>
            ret[2] = Err("TypeMismatch") /\ kv = AfterSet(kv0, op[1]))

\* A set has replaced a Counter and the increment that followed has failed.
C8_Witness ==
    /\ OneThenTwo
    /\ SetOk(op[1])
    /\ EntryOf(kv0, op[1]).kind = "Atomic"
    /\ op[2].name = "increment"
    /\ SameKey(op[1], op[2])
    /\ ret[2] = Err("TypeMismatch")
    /\ EntryOf(kv, op[1]) = Blob(op[1].data)

IsDigit(c) == c \in 48..57

\* The number a sequence of ASCII digits denotes in base ten.
RECURSIVE DecimalValue(_)
DecimalValue(s) ==
    IF s = <<>> THEN 0
    ELSE 10 * DecimalValue(SubSeq(s, 1, Len(s) - 1)) + (s[Len(s)] - 48)

\* How many decimal digits n has.
RECURSIVE NumDigits(_)
NumDigits(n) == IF n < 10 THEN 1 ELSE 1 + NumDigits(n \div 10)

\* s is the decimal ASCII text of n: digits only, no leading zero.
IsDecimalOf(s, n) ==
    /\ Len(s) = NumDigits(n)
    /\ \A i \in 1..Len(s) : IsDigit(s[i])
    /\ Len(s) > 1 => s[1] /= 48
    /\ DecimalValue(s) = n

\* C9: get returns the entry's representation and its exact length and does
\* not change the store: the bytes of a Blob with size their length (so get
\* after set(b, k, bytes) returns bytes), the decimal ASCII text of a
\* Counter with size the number of digits (so "1" after incrementing a fresh
\* key by 1).
C9_GetRepresentation ==
    /\ [][\A t \in Tasks :
            (op[t].name = "get" /\ pc[t] = "bucket_held" /\ Returns(t)) =>
                LET e == EntryOf(kv, op[t])
                IN  /\ kv' = kv
                    /\ e.kind = "Blob" =>
                         ret'[t] = OkStream(e.bytes, Len(e.bytes))
                    /\ e.kind = "Atomic" =>
                         /\ ret'[t].status = "ok"
                         /\ IsDecimalOf(ret'[t].bytes, e.num)
                         /\ ret'[t].num = NumDigits(e.num)]_vars
    /\ []((OneThenTwo /\ SetOk(op[1]) /\ op[2].name = "get"
                      /\ SameKey(op[1], op[2])) =>
            ret[2] = OkStream(op[1].data, Len(op[1].data)))
    /\ []((OneThenTwo /\ op[1].name = "increment"
                      /\ op[1].x = 1 /\ kv0[op[1].bucket].present
                      /\ EntryOf(kv0, op[1]).kind = "Vacant"
                      /\ op[2].name = "get" /\ SameKey(op[1], op[2])) =>
            ret[2] = OkStream(<<49>>, 1))

\* A get has returned the two digits of a Counter.
C9_Witness ==
    \E t \in Tasks :
        /\ op[t].name = "get" /\ pc[t] = "done"
        /\ EntryOf(kv, op[t]).kind = "Atomic"
        /\ EntryOf(kv, op[t]).num >= 10
        /\ ret[t] = OkStream(<<48 + (EntryOf(kv, op[t]).num \div 10),
                               48 + (EntryOf(kv, op[t]).num % 10)>>, 2)

\* The calls that look the bucket up with kv.get(bucket).
LookupCalls == {"get", "delete", "exists", "increment", "compare_and_swap"}

\* C10: get, delete, exists, increment and compare_and_swap on a bucket that
\* is absent fail with BucketNotFound, create no bucket and leave the store
\* as it was; a bucket comes into being only in a step of a set on it.
C10_BucketNotFound ==
    /\ [][\A t \in Tasks :
            (/\ op[t].name \in LookupCalls
             /\ pc[t] = "store_wait" /\ pc'[t] /= "store_wait"
             /\ ~kv[op[t].bucket].present) =>
                /\ pc'[t] = "done"
                /\ ret'[t] = Err("BucketNotFound")
                /\ kv' = kv]_vars
    /\ [][\A b \in Buckets :
            (~kv[b].present /\ kv'[b].present) =>
                \E t \in Tasks :
                    /\ op[t].name = "set" /\ op[t].bucket = b
                    /\ pc[t] = "store_wait" /\ pc'[t] = "bucket_wait"]_vars
    /\ []((Alone /\ op[1].name \in LookupCalls
                 /\ ~kv0[op[1].bucket].present) =>
            ret[1] = Err("BucketNotFound") /\ kv = kv0)

\* An increment and a delete have failed on a bucket that is still absent.
C10_Witness ==
    /\ Returned = {1, 2}
    /\ op[1].name = "increment" /\ op[2].name = "delete"
    /\ \A t \in {1, 2} :
         ret[t] = Err("BucketNotFound") /\ ~kv[op[t].bucket].present

\* The calls that fail on an absent key with "key not found".
KeyCalls == {"get", "delete", "compare_and_swap"}

\* What a call on a key that is absent from an existing bucket returns.
AbsentKeyResult(o) ==
    IF o.name = "exists" THEN OkBool(FALSE) ELSE Err("KeyNotFound")

\* C11: in an existing bucket, get, delete and compare_and_swap on an absent
\* key fail with KeyNotFound and exists returns false, none of them changing
\* the store: in the step in which the call meets the absent key, in a call
\* that runs alone, and in the call that follows a successful delete of the
\* key (a get, a second delete, a compare_and_swap, an exists).
C11_KeyNotFound ==
    /\ [][\A t \in Tasks :
            (/\ op[t].name \in KeyCalls \cup {"exists"}
             /\ pc[t] = "bucket_held" /\ Returns(t)
             /\ EntryOf(kv, op[t]).kind = "Vacant") =>
                ret'[t] = AbsentKeyResult(op[t]) /\ kv' = kv]_vars
    /\ []((/\ Alone
           /\ op[1].name \in KeyCalls \cup {"exists"}
           /\ kv0[op[1].bucket].present
           /\ EntryOf(kv0, op[1]).kind = "Vacant") =>
            ret[1] = AbsentKeyResult(op[1]) /\ kv = kv0)
    /\ []((/\ OneThenTwo
           /\ op[1].name = "delete" /\ ret[1] = OkUnit
           /\ op[2].name \in KeyCalls \cup {"exists"}
           /\ SameKey(op[1], op[2])) =>
            /\ ret[2] = AbsentKeyResult(op[2])
            /\ kv = Only(kv0, op[1], Vacant))

\* A delete has removed a key and the delete that followed has failed with
\* KeyNotFound.
C11_Witness ==
    /\ OneThenTwo
    /\ op[1].name = "delete" /\ ret[1] = OkUnit
    /\ op[2] = op[1]
    /\ ret[2] = Err("KeyNotFound")
    /\ EntryOf(kv0, op[1]).kind /= "Vacant"

\* C12 as stated: after increment(bucket, key, delta) on a store in which the
\* bucket is absent, the bucket exists.
C12_AsStated ==
    (Alone /\ op[1].name = "increment" /\ ~kv0[op[1].bucket].present) =>
        kv[op[1].bucket].present

\* C12 (amended): a bucket is born on the first set only: a set that runs
\* alone on an absent bucket leaves the bucket in the store, and an increment
\* that runs alone on an absent bucket fails with BucketNotFound, leaves the
\* bucket absent and inserts no Counter.
C12_BucketBirth ==
    /\ (Alone /\ SetOk(op[1]) /\ ~kv0[op[1].bucket].present) =>
            /\ kv[op[1].bucket].present
            /\ \A b \in Buckets \ {op[1].bucket} :
                 kv[b].present = kv0[b].present
    /\ (Alone /\ op[1].name = "increment" /\ ~kv0[op[1].bucket].present) =>
            /\ ret[1] = Err("BucketNotFound")
            /\ ~kv[op[1].bucket].present
            /\ EntryOf(kv, op[1]) = Vacant

\* An increment on an absent bucket has returned and the bucket is absent.
C12_Witness ==
    /\ Alone
    /\ op[1].name = "increment"
    /\ ~kv0[op[1].bucket].present
    /\ ~kv[op[1].bucket].present
    /\ ret[1].status = "BucketNotFound"

\* Task d, a delete, has removed the last key of its bucket after every
\* other operation but task x had returned, and task x, an exists on that
\* key, was invoked after the delete had returned; all have returned.
DeleteLastThenExists(d, x) ==
    /\ Quiescent
    /\ op[d].name = "delete" /\ ret[d] = OkUnit
    /\ op[x].name = "exists" /\ SameKey(op[d], op[x])
    /\ d \in before[x]
    /\ \A v \in Invoked \ {d, x} : v \in before[d]
    /\ kv[op[d].bucket].map = EmptyBucket

\* C13: a bucket that exists in one state exists in every later state; a
\* delete that removes the last key of a bucket leaves the empty bucket in
\* place, and the exists that follows returns false, not BucketNotFound.
C13_BucketsStay ==
    /\ [][\A b \in Buckets : kv[b].present => kv'[b].present]_vars
    /\ [](\A d, x \in Tasks :
            DeleteLastThenExists(d, x) =>
                /\ kv[op[d].bucket].present
                /\ ret[x] = OkBool(FALSE))

\* A Counter was inserted in an empty bucket, deleted, and the exists that
\* followed has returned false on the empty bucket.
C13_Witness ==
    /\ kv0["a"] = SomeBucket(EmptyBucket)
    /\ op[1].name = "increment"
    /\ DeleteLastThenExists(2, 3)
    /\ ret[3] = OkBool(FALSE)
    /\ kv["a"] = SomeBucket(EmptyBucket)

Abandoned == {t \in Tasks : pc[t] = "cancelled"}

\* Task t holds no lock and waits for none.
HoldsNothing(t) ==
    /\ t \notin storeLock.readers \cup storeLock.writer
    /\ \A i \in 1..Len(storeQueue) : storeQueue[i] /= t
    /\ \A b \in Buckets :
        /\ t \notin bucketLock[b].readers \cup bucketLock[b].writer
        /\ \A i \in 1..Len(bucketQueue[b]) : bucketQueue[b][i] /= t

\* Every operation has returned or was abandoned.
Settled == Invoked = Returned \cup Abandoned

\* C14 as stated: an operation abandoned while it awaits the Store lock or a
\* Bucket lock holds no lock afterwards, and leaves the store contents as they
\* were: once every operation has returned or was abandoned, what the
\* operations returned and the store are those of the operations that
\* returned, run one after the other (the abandoned ones have added nothing
\* and inserted nothing).
C14_AsStated ==
    /\ \A t \in Abandoned : HoldsNothing(t)
    /\ Settled =>
         \E order \in Orders(Returned) :
            RespectsRealTime(order) /\ Replays(kv0, order, 1)

\* Task t is a set between the grant of self.0.write() and its return.
SetInProgress(t) ==
    op[t].name = "set" /\ pc[t] \in {"bucket_wait", "bucket_held"}

\* Task u holds no lock, and is at most waiting for the Store lock.
OutsideStore(u) ==
    /\ pc[u] \in {"idle", "set_read", "store_wait", "done"}
    /\ u \notin storeLock.readers \cup storeLock.writer
    /\ \A b \in Buckets : u \notin bucketLock[b].readers \cup bucketLock[b].writer

\* C15: a set holds the Store write lock from its grant until its insert is
\* done, and while it does no other operation holds the Store lock or any
\* Bucket lock, and no step of another operation changes the store or returns
\* a result read from it.
C15_SetSerializes ==
    /\ [](\A t \in Tasks :
            /\ SetInProgress(t) <=> (op[t].name = "set" /\ storeLock.writer = {t})
            /\ SetInProgress(t) =>
                 /\ storeLock.readers = {}
                 /\ \A u \in Tasks \ {t} : OutsideStore(u))
    /\ [][\A t \in Tasks : SetInProgress(t) =>
            \A u \in Tasks \ {t} :
                /\ pc'[u] /= pc[u] => kv' = kv
                /\ ret'[u] \in {ret[u], Err("IOFailure")}]_vars

\* A set holds the Store write lock and the Bucket write lock while a get and
\* an increment on the same bucket wait for the Store lock behind it.
C15_Witness ==
    /\ op[1].name = "set" /\ pc[1] = "bucket_held"
    /\ bucketLock[op[1].bucket].writer = {1}
    /\ op[2].name = "get" /\ op[3].name = "increment"
    /\ op[2].bucket = op[1].bucket /\ op[3].bucket = op[1].bucket
    /\ storeQueue = <<2, 3>>

InQueue(q, t) == \E i \in 1..Len(q) : q[i] = t

HoldsStore(t) == t \in storeLock.readers \cup storeLock.writer

HoldsBucket(t, b) == t \in bucketLock[b].readers \cup bucketLock[b].writer

\* The buckets whose lock task t holds or waits for.
BucketsOf(t) == {b \in Buckets : HoldsBucket(t, b) \/ InQueue(bucketQueue[b], t)}

\* C16: a task holds or waits for a Bucket lock only while it holds the Store
\* lock, never holds or waits for the locks of two buckets, and never waits
\* for the Store lock while it holds a Bucket lock (or the Store lock itself).
C16_LockOrder ==
    \A t \in Tasks :
        /\ BucketsOf(t) /= {} => HoldsStore(t)
        /\ Cardinality(BucketsOf(t)) <= 1
        /\ InQueue(storeQueue, t) => BucketsOf(t) = {} /\ ~HoldsStore(t)

\* An increment between its phases waits for the write lock of the bucket a
\* get is reading, both holding the Store read lock, with a set queued for
\* the Store lock.
C16_Witness ==
    /\ op[1].name = "increment" /\ pc[1] = "bwrite_wait"
    /\ op[2].name = "get" /\ pc[2] = "bucket_held"
    /\ op[3].name = "set" /\ pc[3] = "store_wait"
    /\ storeLock.readers = {1, 2}
    /\ bucketLock[op[1].bucket].readers = {2}
    /\ bucketQueue[op[1].bucket] = <<1>>

\* The tasks whose call is on key k of bucket b.
CallersOn(b, k) == {t \in Invoked : op[t].bucket = b /\ op[t].key = k}

\* Every call on key k of bucket b is the same compare_and_swap(old = v,
\* new = w) with w different from v, on a Counter of value v, and all have
\* returned.
CasRace(b, k) ==
    /\ Quiescent
    /\ CallersOn(b, k) /= {}
    /\ \A t \in CallersOn(b, k) :
        /\ op[t].name = "compare_and_swap"
        /\ op[t].x /= op[t].y
        /\ kv0[b].present /\ kv0[b].map[k] = Atomic(op[t].x)
        /\ \A u \in CallersOn(b, k) : op[u] = op[t]

\* C17: when every call on a key is the same compare_and_swap(old = v,
\* new = w), w different from v, on a Counter of value v, exactly one of the
\* calls returns true, all the others return false, and the Counter ends at
\* w, whatever the interleaving.
C17_OneWinner ==
    \A b \in Buckets, k \in Keys :
        CasRace(b, k) =>
            /\ Cardinality({t \in CallersOn(b, k) : ret[t] = OkBool(TRUE)}) = 1
            /\ \A t \in CallersOn(b, k) : ret[t] \in {OkBool(TRUE), OkBool(FALSE)}
            /\ \A t \in CallersOn(b, k) : kv[b].map[k] = Atomic(op[t].y)

\* RaceTasks callers of compare_and_swap(1, 0), all invoked before any of them
\* returned, have returned, and the last one invoked has won.
C17_Witness ==
    /\ CasRace("a", "ctr")
    /\ CallersOn("a", "ctr") = 1..RaceTasks
    /\ \A t \in 1..RaceTasks : before[t] = {}
    /\ ret[RaceTasks] = OkBool(TRUE)
    /\ kv["a"].map["ctr"] = Atomic(0)

\* C18: N tasks call increment(bucket, "ctr", 1) on a key that is absent at
\* first, no other call touching the key: once all have returned, the values
\* returned are the numbers 1..N, each returned to one caller, whichever
\* path each caller took.
C18_DistinctReturns ==
    (Quiescent /\ OnlyCtrCalls) =>
        /\ \A t \in CtrCallers : ret[t] = OkU64(ret[t].num)
        /\ {ret[t].num : t \in CtrCallers} = 1..Cardinality(CtrCallers)
        /\ \A t, u \in CtrCallers : ret[t].num = ret[u].num => t = u

\* RaceTasks increments, all invoked before any of them returned, have
\* returned, the first one invoked with the highest value and the last one
\* with the lowest.
C18_Witness ==
    /\ Quiescent
    /\ OnlyCtrCalls
    /\ CtrCallers = 1..RaceTasks
    /\ \A t \in CtrCallers : before[t] = {}
    /\ ret[1] = OkU64(RaceTasks)
    /\ ret[RaceTasks] = OkU64(1)

\* Before any of them returns, one increment is in the slow path under the
\* Bucket write lock and the others have left the read phase and wait behind
\* it: the first creates the Counter and the others fold into it.
C18_AllSlow ==
    /\ OnlyCtrCalls
    /\ CtrCallers = 1..RaceTasks
    /\ Returned = {}
    /\ \E t \in CtrCallers :
        /\ pc[t] = "bwrite_held"
        /\ \A u \in CtrCallers \ {t} : pc[u] = "bwrite_wait"

\* Task t is an increment between its read phase and its return from the
\* slow path (lines 99-111).
IncBetweenPhases(t) ==
    op[t].name = "increment" /\ pc[t] \in {"bwrite_wait", "bwrite_held"}

\* C19: an increment that found its key absent under the Bucket read lock
\* holds the Store read lock until it returns and never finds a Blob at the
\* slow-path re-check: no set holds the Store write lock meanwhile, the key
\* holds no Blob, no step inserts a Blob into its bucket, and an increment
\* returns TypeMismatch only from its fast-path check of a Blob.
C19_NoBlobAtRecheck ==
    /\ [](\A t \in Tasks : IncBetweenPhases(t) =>
            /\ t \in storeLock.readers
            /\ storeLock.writer = {}
            /\ EntryOf(kv, op[t]).kind /= "Blob")
    /\ [][\A t \in Tasks :
            /\ IncBetweenPhases(t) =>
                 \A k \in Keys :
                    kv'[op[t].bucket].map[k].kind = "Blob" =>
                        kv[op[t].bucket].map[k].kind = "Blob"
            /\ (/\ op[t].name = "increment"
                /\ Returns(t)
                /\ ret'[t] = Err("TypeMismatch")) =>
                    /\ pc[t] = "bucket_held"
                    /\ EntryOf(kv, op[t]).kind = "Blob"]_vars

\* An increment is at the slow-path re-check of an absent key while a set of
\* the same key waits for the Store write lock.
C19_Witness ==
    /\ IncBetweenPhases(1) /\ pc[1] = "bwrite_held"
    /\ EntryOf(kv, op[1]).kind = "Vacant"
    /\ op[2].name = "set" /\ SameKey(op[1], op[2])
    /\ pc[2] = "store_wait"
    /\ storeQueue = <<2>>

\* Task t is a set that has not finished reading its stream.
SetReading(t) == op[t].name = "set" /\ pc[t] = "set_read"

\* C20: a set reads its whole stream before it requests a lock: while it
\* reads it holds no lock and waits for none, the step that ends the reading
\* changes neither the store nor a lock, a set whose stream fails returns
\* IOFailure from that step, and a failed set that ran alone leaves the store
\* as constructed (no bucket created, no entry removed or replaced).
C20_SetDrainsFirst ==
    /\ [](\A t \in Tasks :
            /\ SetReading(t) => HoldsNothing(t)
            /\ (op[t].name = "set" /\ op[t].fails /\ pc[t] = "done") =>
                  ret[t] = Err("IOFailure")
            /\ (op[t].name = "set" /\ HoldsStore(t)) => ~op[t].fails)
    /\ [][\A t \in Tasks :
            /\ (SetReading(t) /\ pc'[t] /= pc[t]) =>
                  /\ kv' = kv
                  /\ storeLock' = storeLock /\ bucketLock' = bucketLock
            /\ (Returns(t) /\ ret'[t] = Err("IOFailure")) => SetReading(t)]_vars
    /\ []((Alone /\ op[1].name = "set" /\ op[1].fails) =>
            ret[1] = Err("IOFailure") /\ kv = kv0)

\* A set on a bucket that does not exist has failed with IOFailure, the bucket
\* still does not exist, and an exists on that bucket, invoked before the set
\* returned, has returned BucketNotFound.
C20_Witness ==
    /\ Quiescent
    /\ op[1].name = "set" /\ op[1].fails
    /\ ret[1] = Err("IOFailure")
    /\ ~kv0[op[1].bucket].present /\ kv = kv0
    /\ op[2].name = "exists" /\ op[2].bucket = op[1].bucket
    /\ before[2] = {}
    /\ ret[2] = Err("BucketNotFound")

====
